---- MODULE Spec2Model ----
(***************************************************************************)
(* Verification model of the Steam Dataset 2025 acquisition pipeline:      *)
(*   - the resumable appdetails crawler (collect_full_dataset.py):         *)
(*     StateManager, SteamAPIClient.get_app_details, DataCollector;        *)
(*   - the two-pass PostgreSQL loader (import-master-data.py).             *)
(* State files are modelled as character sequences, so that formatting an  *)
(* id (f"{appid}\n") and parsing it back (int(line.strip())) are real      *)
(* conversions.                                                            *)
(***************************************************************************)
EXTENDS Integers, Sequences, FiniteSets, TLC

\* ------------------------------------------------------------------------
\* Bounds of the model and program constants
\* ------------------------------------------------------------------------
MaxRuns == 2            \* number of crawler process starts explored
MaxListLen == 3         \* length of the cached app list

API_MAX_RETRIES == 3    \* collect_full_dataset.py:83 (default)
NL == 10                \* the "\n" written after every id; digits are 0..9

AppIds == {1, 10, 20}
SaveBatchSizes == {1, 2}        \* values of API_SAVE_BATCH_SIZE explored

None == [kind |-> "None"]

\* ------------------------------------------------------------------------
\* Pure helpers
\* ------------------------------------------------------------------------
Range(s) == {s[i] : i \in DOMAIN s}

RECURSIVE SeqsUpTo(_, _)
SeqsUpTo(S, n) ==
    IF n = 0 THEN {<<>>}
    ELSE LET shorter == SeqsUpTo(S, n - 1)
         IN  shorter \cup {Append(s, x) : s \in shorter, x \in S}

\* str(appid): the decimal digits of a non-negative integer
RECURSIVE Digits(_)
Digits(n) == IF n < 10 THEN <<n>> ELSE Append(Digits(n \div 10), n % 10)

\* f"{appid}\n"
IdLine(appid) == Append(Digits(appid), NL)

\* int(text) for a non-empty sequence of digits
RECURSIVE ParseInt(_)
ParseInt(ds) ==
    IF Len(ds) = 1 THEN ds[1]
    ELSE 10 * ParseInt(SubSeq(ds, 1, Len(ds) - 1)) + ds[Len(ds)]

\* `for line in f`: the text cut after every "\n"; a last unterminated
\* piece is a line too.  Each line is returned stripped of its "\n".
RECURSIVE SplitLines(_, _)
SplitLines(text, cur) ==
    IF text = <<>> THEN (IF cur = <<>> THEN <<>> ELSE <<cur>>)
    ELSE IF Head(text) = NL THEN <<cur>> \o SplitLines(Tail(text), <<>>)
    ELSE SplitLines(Tail(text), Append(cur, Head(text)))

\* One state file read as load_processed_ids reads it: int(line.strip()) of
\* every line, a ValueError (the empty line) skipped.
LoadFile(text) ==
    LET lines == SplitLines(text, <<>>)
    IN  {ParseInt(lines[i]) : i \in {j \in DOMAIN lines : lines[j] # <<>>}}

\* a load that forgets the failed file (mutant of load_processed_ids)
load_only_succeeded(procFile, failFile) == LoadFile(procFile)

\* StateManager.load_processed_ids: the union of both state files
load_processed_ids(procFile, failFile) == LoadFile(procFile) \cup LoadFile(failFile)

\* ------------------------------------------------------------------------
\* HTTP responses of the appdetails endpoint
\* ------------------------------------------------------------------------
\* status 0 stands for requests.exceptions.RequestException (no response).
\* node: what data.get(str(appid)) is for a 200 response.
Responses ==
    [status : {200}, node : {"success", "nosuccess", "absent"}]
      \cup [status : {401, 403, 404, 429, 500, 0}, node : {"none"}]

HardStatuses == {404, 401, 403}

Node(appid, ok) == [kind |-> "node", appid |-> appid, success |-> ok]

\* line 155: data.get(str(appid)) if data and str(appid) in data else None
ParsedNode(appid, resp) ==
    CASE resp.node = "success"   -> Node(appid, TRUE)
      [] resp.node = "nosuccess" -> Node(appid, FALSE)
      [] OTHER                   -> None

\* `if details:` a non-empty dict is truthy whatever its success flag is
Truthy(d) == d # None


\* ------------------------------------------------------------------------
\* State of the crawler (collect_full_dataset.py)
\* ------------------------------------------------------------------------
VARIABLES
    appList,        \* state/app_list.json: the cached work list (appids)
    batchSize,      \* API_SAVE_BATCH_SIZE of the environment
    keySet,         \* STEAM_API_KEY is set in the environment
    created,        \* directories and log files made by the module set-up
    crawlerExit,    \* exit status of the last process (-1: none yet, or running)
    processedFile,  \* state/processed_appids.txt, as characters
    failedFile,     \* state/failed_appids.txt, as characters
    dataDir,        \* data/*.json: batch number -> [recs, torn]
    pc,             \* position of the running process ("idle": none runs)
    toFetch,        \* appids_to_fetch
    idx,            \* position of the for loop in appids_to_fetch
    batch,          \* the in-memory batch buffer
    batchNum,       \* batch_num
    attempt,        \* loop variable of get_app_details
    details,        \* value returned by get_app_details
    lastStatus,     \* status of the response the last request got (0: exception)
    runs,           \* history: process starts so far
    requests,       \* history: requests sent by the current get_app_details call
    sleeps,         \* history: backoff sleeps of the current get_app_details call
    lastDelay,      \* history: length of the latest of these sleeps, in tenths of a second
    determined,     \* history: ids for which get_app_details has returned
    marked,         \* history: ids whose append_processed/append_failed completed
    markedPrev      \* history: `marked` as it was when the current run started

cvars == <<appList, batchSize, keySet, created, crawlerExit, processedFile, failedFile, dataDir, pc, toFetch,
           idx, batch, batchNum, attempt, details, lastStatus, runs,
           requests, sleeps, lastDelay, determined, marked, markedPrev>>

NoStatus == -1

\* the files and history a run leaves alone while it only computes
diskVars == <<appList, batchSize, keySet, processedFile, failedFile, dataDir>>

\* ids whose record is in a completely written batch artifact
OnDisk(dir) ==
    UNION {{r.appid : r \in Range(dir[n].recs)} : n \in {m \in DOMAIN dir : ~dir[m].torn}}

\* empty state files, an empty data directory, no process
NoSetup == [dirs |-> {}, logs |-> {}]

CrawlerFresh ==
    /\ created = NoSetup
    /\ crawlerExit = -1
    /\ processedFile = <<>>
    /\ failedFile = <<>>
    /\ dataDir = <<>>
    /\ pc = "idle"
    /\ toFetch = <<>>
    /\ idx = 0
    /\ batch = <<>>
    /\ batchNum = 0
    /\ attempt = 0
    /\ details = None
    /\ lastStatus = NoStatus
    /\ runs = 0
    /\ requests = 0
    /\ sleeps = 0
    /\ lastDelay = 0
    /\ determined = {}
    /\ marked = {}
    /\ markedPrev = {}

CrawlerInit ==
    /\ appList \in (SeqsUpTo(AppIds, MaxListLen) \ {<<>>})
    /\ keySet \in BOOLEAN
    /\ batchSize \in SaveBatchSizes
    /\ CrawlerFresh

\* the memory of a process that is not running
ProcessGone(status) ==
    /\ crawlerExit' = status
    /\ pc' = "idle"
    /\ toFetch' = <<>>
    /\ idx' = 0
    /\ batch' = <<>>
    /\ batchNum' = 0
    /\ attempt' = 0
    /\ details' = None
    /\ lastStatus' = NoStatus
    /\ requests' = 0
    /\ sleeps' = 0
    /\ lastDelay' = 0

\* line 184: the work list minus everything the state files name
appids_to_fetch(list, already) == SelectSeq(list, LAMBDA a : a \notin already)

\* line 192: one more than the number of *.json files in data/
first_batch_num(dir) == Cardinality(DOMAIN dir) + 1

\* lines 56-72, run when the module is loaded: the working directories are
\* made and the log file of this process is opened
module_setup(made, run) ==
    [dirs |-> made.dirs \cup {"state", "data", "logs"}, logs |-> made.logs \cup {<<"collection_run", run>>}]

\* lines 56-79 with STEAM_API_KEY unset: the set-up of lines 56-72 has run
\* when line 77 finds the key missing and line 79 exits with status 1
ConfigError ==
    /\ pc = "idle"
    /\ runs < MaxRuns
    /\ ~keySet
    /\ runs' = runs + 1
    /\ created' = module_setup(created, runs + 1)
    /\ crawlerExit' = 1
    /\ UNCHANGED <<diskVars, pc, toFetch, idx, batch, batchNum, attempt, details,
                   lastStatus, requests, sleeps, lastDelay, determined, marked,
                   markedPrev>>

\* run_collection, lines 178-192: load the state, filter, return when
\* nothing is left, else set up the loop.
StartRun ==
    /\ pc = "idle"
    /\ runs < MaxRuns
    /\ keySet
    /\ runs' = runs + 1
    /\ created' = module_setup(created, runs + 1)
    /\ markedPrev' = marked
    /\ LET todo == appids_to_fetch(appList, load_processed_ids(processedFile, failedFile))
       IN  IF todo = <<>>
           THEN /\ crawlerExit' = 0
                /\ UNCHANGED <<pc, toFetch, idx, batch, batchNum>>
           ELSE /\ crawlerExit' = -1
                /\ pc' = "fetch"
                /\ toFetch' = todo
                /\ idx' = 1
                /\ batch' = <<>>
                /\ batchNum' = first_batch_num(dataDir)
    /\ UNCHANGED <<diskVars, attempt, details, lastStatus, requests, sleeps,
                   lastDelay, determined, marked>>

\* the appid the for loop of run_collection is at
cur == toFetch[idx]

\* a client that takes 401 and 403 for server errors (mutant of IsHardFailure)
OnlyNotFoundIsHard(resp) == resp.status = 404

\* lines 156-158: a hard failure is returned at once, without retry
IsHardFailure(resp) == resp.status \in HardStatuses

\* random.random() * 0.5 of line 166, in tenths of a second: [0, 0.5) on a
\* grid of tenths
Jitters == 0..4

\* the draws explored where the length of the sleeps is of no interest
CalmJitters == {0}

\* a backoff whose base does not grow with the attempt (mutant of backoff_delay)
flat_delay(n, jitter) == 10 + jitter

\* line 166: (5 ** attempt) + (random.random() * 0.5), in tenths of a second
backoff_delay(n, jitter) == 10 * (5 ^ n) + jitter

\* get_app_details, lines 150-168: one pass of the attempt loop, the
\* request of line 152 drawing its response from the remote.
Request(resp, jitter) ==
    /\ pc = "fetch"
    /\ requests' = requests + 1
    /\ IF resp.status = 200
       THEN /\ details' = ParsedNode(cur, resp)
            /\ lastStatus' = resp.status
            /\ pc' = "record"
            /\ UNCHANGED <<attempt, sleeps, lastDelay>>
       ELSE IF IsHardFailure(resp)
       THEN /\ details' = None
            /\ lastStatus' = resp.status
            /\ pc' = "record"
            /\ UNCHANGED <<attempt, sleeps, lastDelay>>
       ELSE \* 429, another status, or a RequestException: sleep, next attempt
            /\ sleeps' = sleeps + 1
            /\ lastDelay' = backoff_delay(attempt, jitter)
            /\ attempt' = attempt + 1
            /\ details' = None
            /\ pc' = IF attempt + 1 < API_MAX_RETRIES THEN "fetch" ELSE "record"
            \* `response` is dead once the loop goes round
            /\ lastStatus' = IF pc' = "record" THEN resp.status ELSE NoStatus
    /\ determined' = IF pc' = "record" THEN determined \cup {cur} ELSE determined
    /\ UNCHANGED <<diskVars, toFetch, idx, batch, batchNum, runs, created, marked, markedPrev>>
    /\ UNCHANGED crawlerExit

\* StateManager.append_processed / append_failed: the whole line is added
append_line(text, appid) == text \o IdLine(appid)

\* get_app_details has returned and its result has been used: its locals
\* and `details` are dead
CallOver ==
    /\ attempt' = 0
    /\ details' = None
    /\ lastStatus' = NoStatus
    /\ requests' = 0
    /\ sleeps' = 0
    /\ lastDelay' = 0

\* run_collection, lines 199-203: buffer and mark a truthy result, mark a
\* falsy one failed.
Record ==
    /\ pc = "record"
    /\ IF Truthy(details)
       THEN /\ batch' = Append(batch, details)
            /\ processedFile' = append_line(processedFile, cur)
            /\ UNCHANGED failedFile
       ELSE /\ failedFile' = append_line(failedFile, cur)
            /\ UNCHANGED <<batch, processedFile>>
    /\ marked' = marked \cup {cur}
    /\ pc' = "flush"
    /\ CallOver
    /\ UNCHANGED <<appList, batchSize, keySet, dataDir, toFetch, idx, batchNum, runs, created, determined, markedPrev>>
    /\ UNCHANGED crawlerExit

\* the directory after batch_filename.open('w') and json.dump succeeded
WriteFile(dir, n, recs) ==
    [m \in DOMAIN dir \cup {n} |-> IF m = n THEN [recs |-> recs, torn |-> FALSE] ELSE dir[m]]

\* the directory after open('w') truncated the file and the dump stopped
\* (an IOError, or the process dying in the write): the file exists and
\* holds no complete JSON array
TornFile(dir, n) ==
    [m \in DOMAIN dir \cup {n} |->
        IF m = n THEN [recs |-> <<>>, torn |-> TRUE] ELSE dir[m]]

\* _save_batch, lines 217-225.  outcome "ok": written; "noopen": open()
\* raised IOError, nothing touched, the IOError is logged and swallowed
\* (line 225); "torn": the write stopped after open('w') (the process
\* dying in it, see InterruptInSave).
SaveOutcomes == {"ok", "noopen"}

save_batch(dir, recs, n, outcome) ==
    CASE outcome = "ok"     -> {WriteFile(dir, n, recs)}
      [] outcome = "noopen" -> {dir}
      [] OTHER              -> {TornFile(dir, n)}

\* a flush after every buffered record (mutant of batch_full)
flush_each_record(b, size) == Len(b) >= 1

\* line 205: the flush condition
batch_full(b, size) == Len(b) >= size

\* the loop goes on to the next appid, or leaves the loop
NextItem ==
    /\ idx' = idx + 1
    /\ pc' = IF idx < Len(toFetch) THEN "fetch" ELSE "final"
    /\ UNCHANGED <<attempt, details, lastStatus, requests, sleeps, lastDelay>>

\* run_collection, lines 205-210, the buffer being full: save, start a
\* fresh buffer, count the batch up whatever _save_batch met.
FlushFull(outcome) ==
    /\ pc = "flush"
    /\ batch_full(batch, batchSize)
    /\ dataDir' \in save_batch(dataDir, batch, batchNum, outcome)
    /\ batch' = <<>>
    /\ batchNum' = batchNum + 1
    /\ NextItem
    /\ UNCHANGED <<appList, batchSize, keySet, processedFile, failedFile, toFetch, runs, created, determined, marked, markedPrev>>
    /\ UNCHANGED crawlerExit

\* run_collection, lines 205-210, the buffer not being full
NoFlush ==
    /\ pc = "flush"
    /\ ~batch_full(batch, batchSize)
    /\ NextItem
    /\ UNCHANGED <<diskVars, toFetch, batch, batchNum, runs, created, determined,
                   marked, markedPrev>>
    /\ UNCHANGED crawlerExit

\* run_collection, lines 212-215: the partial buffer is saved, the run ends
Finish(outcome) ==
    /\ pc = "final"
    /\ IF batch # <<>>
       THEN dataDir' \in save_batch(dataDir, batch, batchNum, outcome)
       ELSE outcome = "ok" /\ UNCHANGED dataDir
    /\ ProcessGone(0)
    /\ UNCHANGED <<appList, batchSize, keySet, processedFile, failedFile, runs, created, determined, marked, markedPrev>>

\* __main__, lines 231-236: KeyboardInterrupt (or the process being killed)
\* between two statements: the memory is gone, the files stay.
Interrupt ==
    /\ pc \in {"fetch", "record", "flush", "final"}
    /\ ProcessGone(0)
    /\ UNCHANGED <<diskVars, runs, created, determined, marked, markedPrev>>

\* the process dying inside _save_batch, after open('w')
InterruptInSave ==
    /\ \/ pc = "flush" /\ batch_full(batch, batchSize)
       \/ pc = "final" /\ batch # <<>>
    /\ dataDir' \in save_batch(dataDir, batch, batchNum, "torn")
    /\ ProcessGone(0)
    /\ UNCHANGED <<appList, batchSize, keySet, processedFile, failedFile, runs, created, determined, marked, markedPrev>>

\* append_processed / append_failed stopped inside f.write (the disk
\* filling up, the machine going down): a proper, non-empty prefix of the
\* line is in the file, the process is gone.
CrashMidAppend ==
    /\ pc = "record"
    /\ \E k \in 1..Len(Digits(cur)) :
          IF Truthy(details)
          THEN /\ processedFile' = processedFile \o SubSeq(IdLine(cur), 1, k)
               /\ UNCHANGED failedFile
          ELSE /\ failedFile' = failedFile \o SubSeq(IdLine(cur), 1, k)
               /\ UNCHANGED processedFile
    /\ ProcessGone(1)
    /\ UNCHANGED <<appList, batchSize, keySet, dataDir, runs, created, determined, marked, markedPrev>>

\* ------------------------------------------------------------------------
\* The loader (import-master-data.py)
\* ------------------------------------------------------------------------
\* Two of the four lookup tables are modelled, one of each shape: developers
\* (a list of names; publishers is read the same way) and genres (a list of
\* objects with a description; categories is read the same way).
MaxRecords == 2         \* records in the games artifact
MaxLoads == 2           \* number of run_import runs explored

batch_size == 1         \* rows per bulk insert (line 200 has 1000)
review_batch_size == 1  \* review rows per bulk insert (line 293 has 2000)

LookupTables == <<"developers", "genres">>

\* one element of the games artifact: {"success": .., "data": {"steam_appid":
\* .., "name": .., "developers": [..], "genres": [{"description": ..}]}}
\* shape "object": the element is an object whose 'data', where success is
\* true, is an object with lists of entities.
SuccessRecords ==
    [shape : {"object"}, success : {TRUE}, appid : {1, 2}, name : {"n"},
     developers : {<<>>, <<"a", "b">>}, genres : {<<>>, <<"g">>}]

\* a successful record naming a developer "" beside the developer "a"
MissRecords ==
    {[shape |-> "object", success |-> TRUE, appid |-> 2, name |-> "n",
      developers |-> <<"", "a">>, genres |-> <<>>]}

\* {"success": false} and a record without a name
OtherRecords ==
    {[shape |-> "object", success |-> FALSE, appid |-> 0, name |-> "",
      developers |-> <<>>, genres |-> <<>>],
     [shape |-> "object", success |-> TRUE, appid |-> 1, name |-> "",
      developers |-> <<"a">>, genres |-> <<>>]}

\* other elements an artifact can hold.  "notobject": not an object (a
\* string, a number, null); "nodata": {"success": true} without 'data';
\* "nulldata": {"success": true, "data": null}; "nulldevs": a successful
\* record whose "developers" is null.
MalformedShapes == {"notobject", "nodata", "nulldata", "nulldevs"}

MalformedRecords ==
    {[shape |-> sh, success |-> sh # "notobject",
      appid |-> IF sh = "nulldevs" THEN 1 ELSE 0,
      name |-> IF sh = "nulldevs" THEN "n" ELSE "",
      developers |-> <<>>, genres |-> <<>>] : sh \in MalformedShapes}

GameRecords == SuccessRecords \cup MissRecords \cup OtherRecords \cup MalformedRecords

\* one element of the reviews artifact: {"appid": .., "reviews": {"success":
\* .., "reviews": [{"recommendationid": ..}, ..]}}
ReviewRecords == [appid : {1, 2}, success : {0, 1}, rids : {<<7>>, <<7, 8>>}]

\* the command lines explored: a games artifact alone, a one-record games
\* artifact together with a one-record reviews artifact, or a one-record
\* reviews artifact alone
LoaderInputs ==
    {[games |-> g, reviews |-> <<>>] : g \in SeqsUpTo(GameRecords, MaxRecords) \ {<<>>}}
      \cup {[games |-> <<g>>, reviews |-> <<r>>] : g \in SuccessRecords, r \in ReviewRecords}
      \cup {[games |-> <<>>, reviews |-> <<r>>] : r \in ReviewRecords}

EmptyStore ==
    [applications |-> <<>>, developers |-> <<>>, genres |-> <<>>,
     application_developers |-> <<>>, application_genres |-> <<>>, reviews |-> <<>>]

JunctionOf(table) == IF table = "developers" THEN "application_developers" ELSE "application_genres"

Orderings(S) == {s \in [1..Cardinality(S) -> S] : Range(s) = S}

VARIABLES
    games,          \* the games artifact (--games_file)
    reviewsIn,      \* the reviews artifact (--reviews_file), <<>>: not given
    db,             \* the database as committed
    tx,             \* the database as the open connection sees it
    seqs,           \* the SERIAL sequences of the lookup tables (not transactional)
    lpc,            \* position of run_import ("off": not running)
    ltable,         \* index in LookupTables of the next bulk statement
    maps,           \* lookup_maps
    pos,            \* records of the artifact consumed by the current pass
    app_batch,      \* app_batch, as rows
    junction_batch, \* junction_batch: table -> pairs <<appid, id or 0 for None>>
    skipped_count,  \* skipped_count
    skipped_logged, \* the count the log line of line 268 gave (-1: not logged)
    existing_appids,\* existing_appids of _import_reviews
    exitCode,       \* exit status of the last run (-1: none yet)
    lastError,      \* what ended the last run early ("none": nothing did)
    loads,          \* history: runs started
    okLoads,        \* history: runs that ended with status 0
    phaseStart,     \* history: the store the current phase started from
    lostWork,       \* history: the failed run had executed inserts in its phase
    afterFirst      \* history: the tables after the first run that ended with 0

lvars == <<games, reviewsIn, skipped_logged, db, tx, seqs, lpc, ltable, maps, pos, app_batch,
           junction_batch, skipped_count, existing_appids, exitCode, lastError, loads,
           okLoads, phaseStart, lostWork, afterFirst>>

NoMaps == [developers |-> <<>>, genres |-> <<>>]
NoJunctions == [developers |-> <<>>, genres |-> <<>>]

LoaderStopped ==
    /\ lpc = "off"
    /\ ltable = 1
    /\ maps = NoMaps
    /\ pos = 1
    /\ app_batch = <<>>
    /\ junction_batch = NoJunctions
    /\ skipped_count = 0
    /\ existing_appids = {}

LoaderInit ==
    /\ \E inp \in LoaderInputs : games = inp.games /\ reviewsIn = inp.reviews
    /\ db = EmptyStore
    /\ tx = EmptyStore
    /\ seqs = [developers |-> 1, genres |-> 1]
    /\ LoaderStopped
    /\ exitCode = -1
    /\ lastError = "none"
    /\ skipped_logged = -1
    /\ loads = 0
    /\ okLoads = 0
    /\ phaseStart = EmptyStore
    /\ lostWork = FALSE
    /\ afterFirst = <<>>

\* the loader's variables while the crawler is looked at
LoaderOff ==
    /\ games = <<>>
    /\ reviewsIn = <<>>
    /\ db = EmptyStore
    /\ tx = EmptyStore
    /\ seqs = [developers |-> 1, genres |-> 1]
    /\ LoaderStopped
    /\ exitCode = -1
    /\ lastError = "none"
    /\ skipped_logged = -1
    /\ loads = 0
    /\ okLoads = 0
    /\ phaseStart = EmptyStore
    /\ lostWork = FALSE
    /\ afterFirst = <<>>

\* the crawler's variables while the loader is looked at
CrawlerOff ==
    /\ appList = <<>>
    /\ batchSize = 1
    /\ keySet = TRUE
    /\ CrawlerFresh

\* _extract_lookup_data, lines 163-174: the names of every successful record
\* _extract_lookup_data raises on the record: line 168 calls .get on an
\* element that is no object (AttributeError), line 170 calls .get on a
\* null 'data' (AttributeError) or iterates a null list (TypeError)
raises_in_scan(r) ==
    \/ r.shape = "notobject"
    \/ r.success /\ r.shape \in {"nulldata", "nulldevs"}

\* a scan that collects the developers alone (mutant of extract_lookup_data)
extract_developers_only(file) ==
    [developers |-> UNION {Range(file[i].developers) : i \in {j \in DOMAIN file : file[j].success}},
     genres     |-> {}]

extract_lookup_data(file) ==
    [developers |-> UNION {Range(file[i].developers) : i \in {j \in DOMAIN file : file[j].success}},
     genres     |-> UNION {Range(file[i].genres) : i \in {j \in DOMAIN file : file[j].success}}]

Names(rows) == {rows[i].name : i \in DOMAIN rows}

\* a bulk insert that appends every value, present or not (mutant of insert_lookup)
insert_lookup_always(rows, first, order) ==
    rows \o [i \in 1..Len(order) |-> [id |-> first + i - 1, name |-> order[i]]]

\* line 184: INSERT INTO <table> (name) VALUES ... ON CONFLICT (name) DO
\* NOTHING.  Every value draws the next number of the sequence; a value whose
\* name is in the table is skipped.
insert_lookup(rows, first, order) ==
    rows \o SelectSeq([i \in 1..Len(order) |-> [id |-> first + i - 1, name |-> order[i]]],
                      LAMBDA r : r.name \notin Names(rows))

\* line 179: the values of a table that are sent (the falsy ones are dropped)
args_list(values) == {v \in values : v # ""}

\* maps that leave the genres out (mutant of fetch_lookup_maps)
fetch_without_genres(store) ==
    [developers |-> store.developers, genres |-> <<>>]

\* _fetch_lookup_maps, lines 187-195: name -> id of every row of every table
fetch_lookup_maps(store) ==
    [developers |-> store.developers, genres |-> store.genres]

\* maps[table].get(name): the id, None (0) when the name is not in the map
map_get(rows, name) ==
    IF \E i \in DOMAIN rows : rows[i].name = name
    THEN rows[CHOOSE i \in DOMAIN rows : rows[i].name = name].id
    ELSE 0

\* a handler that keeps what the failed transaction did (mutant of conn_rollback)
keep_partial_work(committed, working) == working

\* line 121: self.conn.rollback(): what the failed run leaves in the database
conn_rollback(committed, working) == committed

\* run_import, lines 116-126: the except branch (rollback, exit status 1)
\* and the finally branch (the connection is closed)
Abort(kind) ==
    /\ db' = conn_rollback(db, tx)
    /\ tx' = db'
    /\ lostWork' = (tx # phaseStart)
    /\ exitCode' = 1
    /\ lastError' = kind
    /\ lpc' = "off"
    /\ ltable' = 1
    /\ maps' = NoMaps
    /\ pos' = 1
    /\ app_batch' = <<>>
    /\ junction_batch' = NoJunctions
    /\ skipped_count' = 0
    /\ existing_appids' = {}
    /\ UNCHANGED <<games, reviewsIn, skipped_logged, seqs, loads, okLoads, phaseStart, afterFirst>>

\* run_import, lines 110-114: connect; the games import comes first when a
\* games file is given.
LBegin(g, r) ==
    /\ lpc = "off"
    /\ loads < MaxLoads
    /\ loads' = loads + 1
    /\ games' = g
    /\ reviewsIn' = r
    /\ lpc' = IF g # <<>> THEN "lookup" ELSE "reviews"
    /\ phaseStart' = db
    /\ lostWork' = FALSE
    /\ exitCode' = -1
    /\ lastError' = "none"
    /\ skipped_logged' = -1
    /\ UNCHANGED <<db, tx, seqs, ltable, maps, pos, app_batch, junction_batch,
                   skipped_count, existing_appids, okLoads, afterFirst>>

\* the loader is run again on the artifacts of the run before
LStart == LBegin(games, reviewsIn)

\* the loader is run on another games artifact
LStartOn(g) == LBegin(g, <<>>)

\* _populate_lookup_tables, lines 178-185: the bulk insert of one table, its
\* values in the iteration order of the Python set; a table without values
\* is passed over.  The scan of line 135 comes first: an exception it
\* raises is none of those run_import catches, the finally branch closes
\* the connection and the process ends with a traceback (status 1).
LPopulate ==
    /\ lpc = "lookup"
    /\ IF ltable = 1 /\ \E i \in DOMAIN games : raises_in_scan(games[i])
       THEN Abort("crash")
       ELSE /\ LET table  == LookupTables[ltable]
                   values == args_list(extract_lookup_data(games)[table])
               IN  IF values = {}
                   THEN UNCHANGED <<tx, seqs>>
                   ELSE \E order \in Orderings(values) :
                          /\ tx' = [tx EXCEPT ![table] = insert_lookup(@, seqs[table], order)]
                          /\ seqs' = [seqs EXCEPT ![table] = @ + Len(order)]
            /\ IF ltable < Len(LookupTables)
               THEN ltable' = ltable + 1 /\ lpc' = "lookup"
               ELSE ltable' = 1 /\ lpc' = "commit1"
            /\ UNCHANGED <<games, reviewsIn, skipped_logged, db, maps, pos, app_batch,
                           junction_batch, skipped_count, existing_appids, exitCode,
                           lastError, loads, okLoads, phaseStart, lostWork, afterFirst>>

\* line 137: self.conn.commit() after the lookup tables
LCommitLookups ==
    /\ lpc = "commit1"
    /\ db' = tx
    /\ phaseStart' = tx
    /\ lpc' = "maps"
    /\ UNCHANGED <<games, reviewsIn, skipped_logged, tx, seqs, ltable, maps, pos, app_batch,
                   junction_batch, skipped_count, existing_appids, exitCode, lastError, loads, okLoads,
                   lostWork, afterFirst>>

\* lines 139-140: the maps are read; the next transaction begins here
LFetchMaps ==
    /\ lpc = "maps"
    /\ maps' = fetch_lookup_maps(tx)
    /\ phaseStart' = tx
    /\ pos' = 1
    /\ lpc' = "apps"
    /\ UNCHANGED <<games, reviewsIn, skipped_logged, db, tx, seqs, ltable, app_batch, junction_batch,
                   skipped_count, existing_appids, exitCode, lastError, loads, okLoads, lostWork, afterFirst>>

\* line 208: the record is no object, not successful or without 'data'
is_invalid(r) == r.shape = "notobject" \/ ~r.success \/ r.shape = "nodata"

\* _insert_application_data raises on the record: line 213 calls .get on a
\* null 'data' (AttributeError), line 254 iterates a null list (TypeError)
raises_in_insert(r) == ~is_invalid(r) /\ r.shape \in {"nulldata", "nulldevs"}

\* lines 208-218: the record is skipped
is_skipped(r) == is_invalid(r) \/ r.appid = 0 \/ r.name = ""

JunctionPairs(r, names, rows) == [i \in DOMAIN names |-> <<r.appid, map_get(rows, names[i])>>]

\* _insert_application_data, lines 203-264: records are read from `p` on
\* until app_batch is full or the artifact ends.
RECURSIVE prepare_batch(_, _, _, _)
prepare_batch(file, p, m, acc) ==
    IF p > Len(file) \/ Len(acc.apps) >= batch_size
    THEN [acc EXCEPT !.pos = p]
    ELSE LET r == file[p]
         IN  IF is_skipped(r)
             THEN prepare_batch(file, p + 1, m, [acc EXCEPT !.skipped = @ + 1])
             ELSE prepare_batch(file, p + 1, m,
                    [acc EXCEPT !.apps = Append(@, [appid |-> r.appid, name |-> r.name]),
                                !.junctions = [developers |-> @.developers \o JunctionPairs(r, r.developers, m.developers),
                                               genres |-> @.genres \o JunctionPairs(r, r.genres, m.genres)]])

AppIdsOf(rows) == {rows[i].appid : i \in DOMAIN rows}

\* the elements of `s` at the positions `keep`, in order
SubSeqAt(s, keep) ==
    LET F[i \in 0..Len(s)] ==
            IF i = 0 THEN <<>>
            ELSE IF i \in keep THEN Append(F[i - 1], s[i]) ELSE F[i - 1]
    IN  F[Len(s)]

\* ON CONFLICT DO NOTHING: the rows of `new` whose key (keys[i] for new[i])
\* is neither in the table (`have`) nor earlier in `new`
SkipConflicts(have, new, keys) ==
    SubSeqAt(new, {i \in DOMAIN new :
                     keys[i] \notin have /\ \A j \in 1..(i - 1) : keys[j] # keys[i]})

\* lines 273-282: INSERT INTO applications ... ON CONFLICT (appid) DO NOTHING
insert_applications(rows, new) ==
    rows \o SkipConflicts(AppIdsOf(rows), new, [i \in DOMAIN new |-> new[i].appid])

\* The key of a junction table is the composite (fact id, lookup id); the
\* table definitions are not part of the sources, the key is the documented one.
junction_key(pair) == <<pair[1], pair[2]>>

\* every pair is sent, the ones without an id too (mutant of insert_junction)
insert_junction_unfiltered(rows, pairs) ==
    rows \o SkipConflicts({junction_key(rows[i]) : i \in DOMAIN rows}, pairs,
                          [i \in DOMAIN pairs |-> junction_key(pairs[i])])

\* lines 285-288: the pairs with an id are sent, ON CONFLICT DO NOTHING
insert_junction(rows, pairs) ==
    LET sent == SelectSeq(pairs, LAMBDA v : v[2] # 0)
    IN  rows \o SkipConflicts({junction_key(rows[i]) : i \in DOMAIN rows}, sent,
                              [i \in DOMAIN sent |-> junction_key(sent[i])])

\* lines 203-264 and 273-282: the next batch is prepared and its fact rows
\* are inserted; with nothing left to insert the pass is over (line 267).
LInsertApplications ==
    /\ lpc = "apps"
    /\ LET b == prepare_batch(games, pos, maps,
                  [apps |-> <<>>, junctions |-> NoJunctions, skipped |-> 0, pos |-> pos])
       IN  IF \E i \in pos..(b.pos - 1) : raises_in_insert(games[i])
           THEN Abort("crash")
           ELSE /\ pos' = b.pos
                /\ skipped_count' = skipped_count + b.skipped
                /\ IF b.apps = <<>>
                   THEN /\ lpc' = "commit3"
                        /\ skipped_logged' = skipped_count'
                        /\ UNCHANGED <<tx, app_batch, junction_batch>>
                   ELSE /\ tx' = [tx EXCEPT !.applications = insert_applications(@, b.apps)]
                        /\ app_batch' = b.apps
                        /\ junction_batch' = b.junctions
                        /\ lpc' = "junction"
                        /\ UNCHANGED skipped_logged
                /\ UNCHANGED <<games, reviewsIn, db, seqs, ltable, maps, existing_appids,
                               exitCode, lastError, loads, okLoads, phaseStart, lostWork,
                               afterFirst>>

\* lines 285-288: the junction insert of one table, passed over when the
\* batch holds no pair for it
LInsertJunction ==
    /\ lpc = "junction"
    /\ LET table == LookupTables[ltable]
       IN  IF junction_batch[table] = <<>>
           THEN UNCHANGED tx
           ELSE tx' = [tx EXCEPT ![JunctionOf(table)] = insert_junction(@, junction_batch[table])]
    /\ IF ltable < Len(LookupTables)
       THEN /\ ltable' = ltable + 1
            /\ UNCHANGED <<lpc, app_batch, junction_batch>>
       ELSE /\ ltable' = 1
            /\ app_batch' = <<>>
            /\ junction_batch' = NoJunctions
            /\ lpc' = "apps"
    /\ UNCHANGED <<games, reviewsIn, skipped_logged, db, seqs, maps, pos, skipped_count, existing_appids, exitCode, lastError,
                   loads, okLoads, phaseStart, lostWork, afterFirst>>

\* line 144: self.conn.commit() after the application data
LCommitApplications ==
    /\ lpc = "commit3"
    /\ db' = tx
    /\ phaseStart' = tx
    /\ lpc' = IF reviewsIn # <<>> THEN "reviews" ELSE "summary"
    /\ UNCHANGED <<games, reviewsIn, skipped_logged, tx, seqs, ltable, maps, pos, app_batch,
                   junction_batch, skipped_count, existing_appids, exitCode, lastError, loads, okLoads,
                   lostWork, afterFirst>>

\* the records are taken as they come, without the look at existing_appids
\* (mutant of review_rows)
RECURSIVE review_rows_unchecked(_, _)
review_rows_unchecked(file, existing) ==
    IF file = <<>> THEN <<>>
    ELSE LET r == Head(file)
         IN  (IF r.appid # 0 /\ r.success = 1
              THEN [i \in DOMAIN r.rids |-> [rid |-> r.rids[i], appid |-> r.appid]]
              ELSE <<>>) \o review_rows_unchecked(Tail(file), existing)

\* _insert_review_data, lines 294-314: the rows of every record that has an
\* appid, success == 1 and a parent among `existing`
RECURSIVE review_rows(_, _)
review_rows(file, existing) ==
    IF file = <<>> THEN <<>>
    ELSE LET r == Head(file)
         IN  (IF r.appid # 0 /\ r.success = 1 /\ r.appid \in existing
              THEN [i \in DOMAIN r.rids |-> [rid |-> r.rids[i], appid |-> r.appid]]
              ELSE <<>>) \o review_rows(Tail(file), existing)

\* the reviews table references applications(appid): a statement with a row
\* whose appid is no fact-table key is refused by the database
fk_violation(rows, store) ==
    \E i \in DOMAIN rows : rows[i].appid \notin AppIdsOf(store.applications)

\* lines 324-331: INSERT INTO reviews ... ON CONFLICT (recommendationid) DO NOTHING
insert_reviews(rows, new) ==
    rows \o SkipConflicts({rows[i].rid : i \in DOMAIN rows}, new, [i \in DOMAIN new |-> new[i].rid])

\* _import_reviews, lines 154-157: the appids of the fact table are read
LReviewsStart ==
    /\ lpc = "reviews"
    /\ existing_appids' = AppIdsOf(tx.applications)
    /\ phaseStart' = tx
    /\ pos' = 1
    /\ lpc' = "rbatch"
    /\ UNCHANGED <<games, reviewsIn, skipped_logged, db, tx, seqs, ltable, maps, app_batch,
                   junction_batch, skipped_count, exitCode, lastError, loads, okLoads, lostWork,
                   afterFirst>>

\* lines 315-318: the next review batch is inserted; with no row left the
\* pass is over
LInsertReviews ==
    /\ lpc = "rbatch"
    /\ LET rows == review_rows(reviewsIn, existing_appids)
           last == IF pos + review_batch_size - 1 < Len(rows)
                   THEN pos + review_batch_size - 1 ELSE Len(rows)
       IN  IF pos <= Len(rows) /\ fk_violation(SubSeq(rows, pos, last), tx)
           THEN Abort("fk")
           ELSE /\ IF pos > Len(rows)
                   THEN lpc' = "commitR" /\ UNCHANGED <<tx, pos>>
                   ELSE /\ tx' = [tx EXCEPT !.reviews = insert_reviews(@, SubSeq(rows, pos, last))]
                        /\ pos' = last + 1
                        /\ UNCHANGED lpc
                /\ UNCHANGED <<games, reviewsIn, skipped_logged, db, seqs, ltable, maps, app_batch,
                               junction_batch, skipped_count, existing_appids, exitCode,
                               lastError, loads, okLoads, phaseStart, lostWork, afterFirst>>

\* line 160: self.conn.commit() after the reviews
LCommitReviews ==
    /\ lpc = "commitR"
    /\ db' = tx
    /\ phaseStart' = tx
    /\ lpc' = "summary"
    /\ UNCHANGED <<games, reviewsIn, skipped_logged, tx, seqs, ltable, maps, pos, app_batch,
                   junction_batch, skipped_count, existing_appids, exitCode, lastError, loads, okLoads,
                   lostWork, afterFirst>>

\* lines 115, 124-126: the summary is printed, the connection closed, the
\* process ends with status 0
LDone ==
    /\ lpc = "summary"
    /\ exitCode' = 0
    /\ UNCHANGED lastError
    /\ okLoads' = okLoads + 1
    /\ afterFirst' = IF okLoads = 0 THEN <<db>> ELSE afterFirst
    /\ tx' = db
    /\ lpc' = "off"
    /\ ltable' = 1
    /\ maps' = NoMaps
    /\ pos' = 1
    /\ app_batch' = <<>>
    /\ junction_batch' = NoJunctions
    /\ skipped_count' = 0
    /\ existing_appids' = {}
    /\ UNCHANGED <<games, reviewsIn, skipped_logged, db, seqs, loads, phaseStart, lostWork>>

\* lines 116-126: a statement (an insert, a select, a commit) raises
\* psycopg2.Error: rollback, exit status 1.
LDbError ==
    /\ lpc \in {"lookup", "commit1", "maps", "apps", "junction", "commit3",
                "reviews", "rbatch", "commitR"}
    /\ Abort("db")

\* ------------------------------------------------------------------------
\* State of the review collector (collect_full_reviews.py)
\* ------------------------------------------------------------------------
VARIABLES
    rAppList,       \* state/app_list_for_reviews.json: its cached work list
    reviewFile,     \* state/processed_reviews_full_appids.txt, as characters
    reviewDir,      \* data_reviews/reviews_full_batch_*.json: number -> [recs, torn]
    rpc,            \* position of the running review process ("idle": none runs)
    rToFetch,       \* its appids_to_fetch
    rIdx,           \* position of its for loop
    rBatch,         \* its in-memory batch buffer
    rBatchNum,      \* its batch_num
    review_data,    \* value returned by get_app_reviews
    rRuns,          \* history: starts of the review collector so far
    rMarked         \* history: ids whose append_processed_id completed

rvars == <<rAppList, reviewFile, reviewDir, rpc, rToFetch, rIdx, rBatch, rBatchNum,
           review_data, rRuns, rMarked>>

\* the files of each collector, and the private state of the crawler process
crawlerFiles == <<appList, processedFile, failedFile, dataDir>>
reviewFiles == <<rAppList, reviewFile, reviewDir>>
crawlerProc == <<batchSize, keySet, crawlerExit, pc, toFetch, idx, batch, batchNum,
                 attempt, details, lastStatus, runs, requests, sleeps, lastDelay,
                 determined, marked, markedPrev>>

\* StateManager.__init__ and FullDatasetCollector.__init__ of the crawler:
\* the paths of its cache, its two state files and its batch artifacts
crawler_paths ==
    [app_list |-> "state/app_list.json",
     processed |-> "state/processed_appids.txt",
     failed |-> "state/failed_appids.txt",
     batches |-> "data/*.json"]

\* a review state file that is the crawler's (mutant of review_processed_ids_file)
shared_processed_ids_file == "state/processed_appids.txt"

\* ReviewStateManager.__init__, line 87
review_processed_ids_file == "state/processed_reviews_full_appids.txt"

\* ReviewStateManager.__init__ line 86, FullReviewCollector lines 156, 198
review_paths ==
    [app_list |-> "state/app_list_for_reviews.json",
     processed |-> review_processed_ids_file,
     batches |-> "data_reviews/reviews_full_batch_*.json"]

\* the state file a path of the working directory names
file_at(path) ==
    CASE path = crawler_paths.processed -> processedFile
      [] path = crawler_paths.failed    -> failedFile
      [] OTHER                          -> reviewFile

\* append_processed_id, lines 120-123: one line appended to the file the
\* path names, every other file left as it is
state_append(path, appid) ==
    /\ processedFile' = IF path = crawler_paths.processed
                        THEN append_line(processedFile, appid) ELSE processedFile
    /\ failedFile' = IF path = crawler_paths.failed
                     THEN append_line(failedFile, appid) ELSE failedFile
    /\ reviewFile' = IF path \notin {crawler_paths.processed, crawler_paths.failed}
                     THEN append_line(reviewFile, appid) ELSE reviewFile

\* lines 58-68, run when the module is loaded: state/, data_reviews/ and
\* logs/ are made (exist_ok) and the log file of this process is opened
review_setup(made, run) ==
    [dirs |-> made.dirs \cup {"state", "data_reviews", "logs"},
     logs |-> made.logs \cup {<<"review_collection_run", run>>}]

\* no review collector: nothing cached, nothing written, no process
ReviewOff ==
    /\ rAppList = <<>>
    /\ reviewFile = <<>>
    /\ reviewDir = <<>>
    /\ rpc = "idle"
    /\ rToFetch = <<>>
    /\ rIdx = 0
    /\ rBatch = <<>>
    /\ rBatchNum = 0
    /\ review_data = "none"
    /\ rRuns = 0
    /\ rMarked = {}

\* run_collection, lines 158-172 (STEAM_API_KEY_2 set, the list cached)
RStart ==
    /\ rpc = "idle"
    /\ rRuns < MaxRuns
    /\ rRuns' = rRuns + 1
    /\ created' = review_setup(created, rRuns + 1)
    /\ LET todo == appids_to_fetch(rAppList, LoadFile(file_at(review_paths.processed)))
       IN  IF todo = <<>>
           THEN /\ rpc' = "idle"
                /\ UNCHANGED <<rToFetch, rIdx, rBatch, rBatchNum>>
           ELSE /\ rpc' = "fetch"
                /\ rToFetch' = todo
                /\ rIdx' = 1
                /\ rBatch' = <<>>
                /\ rBatchNum' = first_batch_num(reviewDir)
    /\ UNCHANGED <<crawlerProc, crawlerFiles, reviewFiles, review_data, rMarked>>

\* what get_app_reviews (lines 132-148) hands back after its retries: a
\* payload with reviews, a payload with an empty list, or None
ReviewResults == {"reviews", "empty", "none"}

\* line 177
RFetch(result) ==
    /\ rpc = "fetch"
    /\ review_data' = result
    /\ rpc' = "record"
    /\ UNCHANGED <<cvars, reviewFiles, rToFetch, rIdx, rBatch, rBatchNum, rRuns, rMarked>>

\* lines 179-182: buffer the payload if it has reviews, mark the id
\* processed whatever came back
RRecord ==
    /\ rpc = "record"
    /\ rBatch' = IF review_data = "reviews"
                 THEN Append(rBatch, [appid |-> rToFetch[rIdx], reviews |-> review_data])
                 ELSE rBatch
    /\ state_append(review_paths.processed, rToFetch[rIdx])
    /\ rMarked' = rMarked \cup {rToFetch[rIdx]}
    /\ rpc' = "flush"
    /\ UNCHANGED <<crawlerProc, created, appList, dataDir, rAppList, reviewDir,
                   rToFetch, rIdx, rBatchNum, review_data, rRuns>>

\* lines 184-189, then the next appid or the end of the loop
RFlush(outcome) ==
    /\ rpc = "flush"
    /\ IF Len(rBatch) >= batchSize
       THEN /\ reviewDir' \in save_batch(reviewDir, rBatch, rBatchNum, outcome)
            /\ rBatch' = <<>>
            /\ rBatchNum' = rBatchNum + 1
       ELSE UNCHANGED <<reviewDir, rBatch, rBatchNum>>
    /\ rIdx' = rIdx + 1
    /\ rpc' = IF rIdx < Len(rToFetch) THEN "fetch" ELSE "final"
    /\ UNCHANGED <<cvars, rAppList, reviewFile, rToFetch, review_data, rRuns, rMarked>>

\* lines 191-194: the last, partial batch
RFinish(outcome) ==
    /\ rpc = "final"
    /\ IF rBatch # <<>>
       THEN reviewDir' \in save_batch(reviewDir, rBatch, rBatchNum, outcome)
       ELSE UNCHANGED reviewDir
    /\ rpc' = "idle"
    /\ UNCHANGED <<cvars, rAppList, reviewFile, rToFetch, rIdx, rBatch, rBatchNum,
                   review_data, rRuns, rMarked>>

\* lines 210-212: KeyboardInterrupt between two statements of the loop
RInterrupt ==
    /\ rpc \in {"fetch", "record", "flush", "final"}
    /\ rpc' = "idle"
    /\ UNCHANGED <<cvars, reviewFiles, rToFetch, rIdx, rBatch, rBatchNum, review_data,
                   rRuns, rMarked>>

\* ------------------------------------------------------------------------
\* Embedding generation (generate-embeddings-with-monitoring.py, keyset
\* pagination; 07-generate-embeddings-with-monitoring.py and
\* 02-generate-embeddings-with-monitoring.py, OFFSET pagination)
\* ------------------------------------------------------------------------
MaxRows == 3            \* rows of the table

\* processing_chunk_size: the LIMIT of the SELECT
ChunkSizes == {1, 2}

\* one row: its text column (NULL, '' or a text) and whether its vector
\* column and embedding_run_id are set (the UPDATE sets both at once)
EmbedRows == [text : {"null", "empty", "text"}, embedded : BOOLEAN]

\* the contents of a table with the ids 1..n, n up to MaxRows
EmbedTables == UNION {[1..n -> EmbedRows] : n \in 1..MaxRows}

VARIABLES
    table0,         \* the table as it was before either process_table ran
    chunk_size,     \* processing_chunk_size
    strict,         \* the OFFSET version is 02-...py (text <> '' in its WHERE clause)
    tblK,           \* the table the keyset process_table works on
    kpc,            \* its position: "init", "loop", "returned", "raised"
    last_id,        \* its last_id
    tblO,           \* the table the OFFSET process_table works on
    opc,            \* its position
    total_records,  \* its total_records
    offset          \* its offset

evars == <<table0, chunk_size, strict, tblK, kpc, last_id, tblO, opc, total_records, offset>>

\* no embedding run: an empty table
EmbedOff ==
    /\ table0 = <<>>
    /\ chunk_size = 1
    /\ strict = FALSE
    /\ tblK = <<>>
    /\ kpc = "init"
    /\ last_id = 0
    /\ tblO = <<>>
    /\ opc = "init"
    /\ total_records = 0
    /\ offset = 0

\* WHERE text IS NOT NULL [AND text <> ''] AND vector IS NULL
where_clause(tbl, notEmpty) ==
    {i \in DOMAIN tbl : /\ tbl[i].text # "null"
                        /\ (notEmpty => tbl[i].text # "empty")
                        /\ ~tbl[i].embedded}

\* ORDER BY id: the ids of a set in ascending order
RECURSIVE OrderById(_)
OrderById(S) ==
    IF S = {} THEN <<>>
    ELSE LET least == CHOOSE i \in S : \A j \in S : i <= j
         IN  <<least>> \o OrderById(S \ {least})

\* LIMIT n of an ordered result
Limit(s, n) == SubSeq(s, 1, IF Len(s) < n THEN Len(s) ELSE n)

\* OFFSET n of an ordered result
Offset(s, n) == SubSeq(s, n + 1, Len(s))

\* UPDATE ... SET vector = tmp.embedding, embedding_run_id = run_id FROM tmp
\* WHERE id = tmp.id, then COMMIT
update_embeddings(tbl, ids) ==
    [i \in DOMAIN tbl |-> IF i \in Range(ids) THEN [tbl[i] EXCEPT !.embedded = TRUE] ELSE tbl[i]]

\* keyset version, lines 170-181: the count, the early return, last_id
KStart ==
    /\ kpc = "init"
    /\ kpc' = IF where_clause(tblK, FALSE) = {} THEN "returned" ELSE "loop"
    /\ last_id' = 0
    /\ UNCHANGED <<table0, chunk_size, strict, tblK, tblO, opc, total_records, offset>>

\* keyset version, lines 184-235: one round of the loop
KChunk ==
    /\ kpc = "loop"
    /\ LET chunk == Limit(OrderById({i \in where_clause(tblK, FALSE) : i > last_id}), chunk_size)
       IN  IF chunk = <<>>
           THEN /\ kpc' = "returned"
                /\ UNCHANGED <<tblK, last_id>>
           ELSE /\ tblK' = update_embeddings(tblK, chunk)
                /\ last_id' = chunk[Len(chunk)]
                /\ UNCHANGED kpc
    /\ UNCHANGED <<table0, chunk_size, strict, tblO, opc, total_records, offset>>

\* keyset version, lines 153-155: _embed_texts raises on a chunk (out of
\* memory at batch size 1); process_table does not return
KRaise ==
    /\ kpc = "loop"
    /\ {i \in where_clause(tblK, FALSE) : i > last_id} # {}
    /\ kpc' = "raised"
    /\ UNCHANGED <<table0, chunk_size, strict, tblK, last_id, tblO, opc, total_records, offset>>

\* OFFSET versions, line 231 (254): offset += len(chunk)
next_offset(off, n) == off + n

\* OFFSET versions, lines 180-192 (200-211): the count, the early return
OStart ==
    /\ opc = "init"
    /\ total_records' = Cardinality(where_clause(tblO, strict))
    /\ opc' = IF total_records' = 0 THEN "returned" ELSE "loop"
    /\ offset' = 0
    /\ UNCHANGED <<table0, chunk_size, strict, tblK, kpc, last_id, tblO>>

\* OFFSET versions, lines 194-233 (212-257): the loop test and one round
OChunk ==
    /\ opc = "loop"
    /\ LET chunk == Limit(Offset(OrderById(where_clause(tblO, strict)), offset), chunk_size)
       IN  IF offset >= total_records \/ chunk = <<>>
           THEN /\ opc' = "returned"
                /\ UNCHANGED <<tblO, offset>>
           ELSE /\ tblO' = update_embeddings(tblO, chunk)
                /\ offset' = next_offset(offset, Len(chunk))
                /\ UNCHANGED opc
    /\ UNCHANGED <<table0, chunk_size, strict, tblK, kpc, last_id, total_records>>

\* OFFSET versions, lines 164-166 (182-184): _embed_texts raises
ORaise ==
    /\ opc = "loop"
    /\ offset < total_records
    /\ Offset(OrderById(where_clause(tblO, strict)), offset) # <<>>
    /\ opc' = "raised"
    /\ UNCHANGED <<table0, chunk_size, strict, tblK, kpc, last_id, tblO, total_records, offset>>

\* ------------------------------------------------------------------------
\* The sample collector (get_steam_data_sample.py)
\* ------------------------------------------------------------------------
MaxApps == 3                    \* entries of the application list
MaxTarget == 2                  \* target_game_count (--count, positive)
APPID_FILTER_THRESHOLD == 2000  \* get_steam_data_sample.py:86
SaveEvery == 25                 \* get_steam_data_sample.py:261

\* appids of the application list, one of them under the threshold
SampleIds == {1000, 3000, 4000}

\* what get_app_details does with the answer to one request.  "game": a
\* record with success and type 'game'; "other": success, another type;
\* "failed": a 401, an HTTP or network error, undecodable JSON or
\* success false (the base response); "raises": a 200 answer whose JSON is
\* no object (null, a list) or whose node is null, on which line 158 or 161
\* calls .get: an AttributeError that no except clause catches
SampleOutcomes == {"game", "other", "failed", "raises"}

VARIABLES
    apps,               \* the answer of get_app_list, as appids
    target_game_count,  \* target_game_count
    candidate_apps,     \* candidate_apps
    processed_appids,   \* processed_appids
    games_found,        \* games_found
    collected_data,     \* self.collected_data, as the appids of its records
    saved,              \* records in the output file (-1: never written)
    spc,                \* "start", "loop", "done" (returned), "crashed"
    iterations,         \* history: rounds of the while loop
    fetched             \* history: the appids get_app_details was called with

svars == <<apps, target_game_count, candidate_apps, processed_appids, games_found,
           collected_data, saved, spc, iterations, fetched>>

\* no sample collector
SamplerOff ==
    /\ apps = <<>>
    /\ target_game_count = 1
    /\ candidate_apps = <<>>
    /\ processed_appids = {}
    /\ games_found = 0
    /\ collected_data = <<>>
    /\ saved = -1
    /\ spc = "start"
    /\ iterations = 0
    /\ fetched = <<>>

\* line 217: the entries above the threshold
candidates_of(list) == SelectSeq(list, LAMBDA a : a > APPID_FILTER_THRESHOLD)

\* line 232: candidate_apps.pop(candidate_apps.index(app)): the first entry
\* equal to the chosen one is taken out
pop_first(list, app) ==
    LET k == CHOOSE i \in DOMAIN list : list[i] = app /\ \A j \in 1..(i - 1) : list[j] # app
    IN  SubSeq(list, 1, k - 1) \o SubSeq(list, k + 1, Len(list))

\* lines 207-224: the list is fetched and filtered; without a list the
\* function returns at line 213, nothing saved
SStart ==
    /\ spc = "start"
    /\ apps # <<>>
    /\ candidate_apps' = candidates_of(apps)
    /\ processed_appids' = {}
    /\ games_found' = 0
    /\ spc' = "loop"
    /\ UNCHANGED <<apps, target_game_count, collected_data, saved, iterations, fetched>>

\* lines 229-268: one round of the while loop, random.choice having picked
\* the entry at position k
SRound(k, outcome) ==
    /\ spc = "loop"
    /\ games_found < target_game_count
    /\ candidate_apps # <<>>
    /\ k \in DOMAIN candidate_apps
    /\ iterations' = iterations + 1
    /\ LET appid == candidate_apps[k]
       IN  /\ candidate_apps' = pop_first(candidate_apps, appid)
           /\ IF appid = 0 \/ appid \in processed_appids
              THEN /\ outcome = "failed"
                   /\ UNCHANGED <<processed_appids, games_found, collected_data, saved, spc, fetched>>
              ELSE /\ processed_appids' = processed_appids \cup {appid}
                   /\ fetched' = Append(fetched, appid)
                   /\ IF outcome = "raises"
                      THEN /\ spc' = "crashed"
                           /\ UNCHANGED <<games_found, collected_data, saved>>
                      ELSE /\ collected_data' = Append(collected_data, appid)
                           /\ games_found' = IF outcome = "game" THEN games_found + 1 ELSE games_found
                           /\ saved' = IF Cardinality(processed_appids') % SaveEvery = 0
                                       THEN Len(collected_data') ELSE saved
                           /\ UNCHANGED spc
    /\ UNCHANGED <<apps, target_game_count>>

\* lines 229, 270-278: the loop condition is false; final save, return
SExit ==
    /\ spc = "loop"
    /\ ~(games_found < target_game_count /\ candidate_apps # <<>>)
    /\ saved' = Len(collected_data)
    /\ spc' = "done"
    /\ UNCHANGED <<apps, target_game_count, candidate_apps, processed_appids, games_found,
                   collected_data, iterations, fetched>>

\* the variables an action of one program leaves alone
notCrawler == <<lvars, rvars, evars, svars>>
notLoader == <<cvars, rvars, evars, svars>>
notCollectors == <<lvars, evars, svars>>
notEmbed == <<cvars, lvars, rvars, svars>>
notSampler == <<cvars, lvars, rvars, evars>>

\* ------------------------------------------------------------------------
\* Specifications
\* ------------------------------------------------------------------------
vars == <<cvars, lvars, rvars, evars, svars>>

Init == CrawlerInit /\ LoaderOff /\ ReviewOff /\ EmbedOff /\ SamplerOff

\* the crawler: runs, interrupts between statements, failing batch writes
Next ==
    \/ StartRun /\ UNCHANGED notCrawler
    \/ ConfigError /\ UNCHANGED notCrawler
    \/ (\E resp \in Responses, jitter \in CalmJitters : Request(resp, jitter)) /\ UNCHANGED notCrawler
    \/ Record /\ UNCHANGED notCrawler
    \/ (\E outcome \in SaveOutcomes : FlushFull(outcome)) /\ UNCHANGED notCrawler
    \/ NoFlush /\ UNCHANGED notCrawler
    \/ (\E outcome \in SaveOutcomes : Finish(outcome)) /\ UNCHANGED notCrawler
    \/ Interrupt /\ UNCHANGED notCrawler
    \/ InterruptInSave /\ UNCHANGED notCrawler

Spec == Init /\ [][Next]_vars

\* the crawler, the process also dying in the middle of a state-file append
NextCrash ==
    \/ Next
    \/ CrashMidAppend /\ UNCHANGED notCrawler

SpecCrash == Init /\ [][NextCrash]_vars

\* one appid to fetch, every length of the backoff sleeps
InitBackoff ==
    /\ appList \in {<<a>> : a \in AppIds}
    /\ keySet = TRUE
    /\ batchSize \in SaveBatchSizes
    /\ CrawlerFresh
    /\ LoaderOff
    /\ ReviewOff /\ EmbedOff /\ SamplerOff

NextBackoff ==
    \/ StartRun /\ UNCHANGED notCrawler
    \/ (\E resp \in Responses, jitter \in Jitters : Request(resp, jitter)) /\ UNCHANGED notCrawler
    \/ Record /\ UNCHANGED notCrawler
    \/ (\E outcome \in SaveOutcomes : FlushFull(outcome)) /\ UNCHANGED notCrawler
    \/ NoFlush /\ UNCHANGED notCrawler
    \/ (\E outcome \in SaveOutcomes : Finish(outcome)) /\ UNCHANGED notCrawler
    \/ Interrupt /\ UNCHANGED notCrawler
    \/ InterruptInSave /\ UNCHANGED notCrawler

SpecBackoff == InitBackoff /\ [][NextBackoff]_vars

\* The worked example: the list 10, 20, 30, batches of two, a remote that
\* answers 404 for 20 and, within the retry budget, a success for the others
ScenarioList == <<10, 20, 30>>

ScenarioResponses(appid, n) ==
    IF appid = 20
    THEN {resp \in Responses : resp.status = 404}
    ELSE {resp \in Responses :
            \/ resp.status = 200 /\ resp.node = "success"
            \/ resp.status \in {429, 500, 0} /\ n < API_MAX_RETRIES - 1}

InitScenario ==
    /\ appList = ScenarioList
    /\ keySet = TRUE
    /\ batchSize = 2
    /\ CrawlerFresh
    /\ LoaderOff
    /\ ReviewOff /\ EmbedOff /\ SamplerOff

NextScenario ==
    \/ StartRun /\ UNCHANGED notCrawler
    \/ (/\ pc = "fetch"
        /\ \E resp \in ScenarioResponses(cur, attempt), jitter \in Jitters :
              Request(resp, jitter)) /\ UNCHANGED notCrawler
    \/ Record /\ UNCHANGED notCrawler
    \/ FlushFull("ok") /\ UNCHANGED notCrawler
    \/ NoFlush /\ UNCHANGED notCrawler
    \/ Finish("ok") /\ UNCHANGED notCrawler
    \/ Interrupt /\ UNCHANGED notCrawler

SpecScenario == InitScenario /\ [][NextScenario]_vars

InitLoader == CrawlerOff /\ LoaderInit /\ ReviewOff /\ EmbedOff /\ SamplerOff

\* the loader: runs of run_import on the same artifacts, statements failing
NextLoader ==
    \/ LStart /\ UNCHANGED notLoader
    \/ LPopulate /\ UNCHANGED notLoader
    \/ LCommitLookups /\ UNCHANGED notLoader
    \/ LFetchMaps /\ UNCHANGED notLoader
    \/ LInsertApplications /\ UNCHANGED notLoader
    \/ LInsertJunction /\ UNCHANGED notLoader
    \/ LCommitApplications /\ UNCHANGED notLoader
    \/ LReviewsStart /\ UNCHANGED notLoader
    \/ LInsertReviews /\ UNCHANGED notLoader
    \/ LCommitReviews /\ UNCHANGED notLoader
    \/ LDone /\ UNCHANGED notLoader
    \/ LDbError /\ UNCHANGED notLoader

SpecLoader == InitLoader /\ [][NextLoader]_vars

\* the artifacts of the runs of SpecReload: one successful record each
ReloadArtifacts == {<<g>> : g \in {r \in SuccessRecords : r.developers # <<>>} \cup MissRecords}

InitReload == CrawlerOff /\ LoaderOff /\ ReviewOff /\ EmbedOff /\ SamplerOff

\* the loader: runs of run_import on one games artifact after another
NextReload ==
    \/ (\E g \in ReloadArtifacts : LStartOn(g)) /\ UNCHANGED notLoader
    \/ LPopulate /\ UNCHANGED notLoader
    \/ LCommitLookups /\ UNCHANGED notLoader
    \/ LFetchMaps /\ UNCHANGED notLoader
    \/ LInsertApplications /\ UNCHANGED notLoader
    \/ LInsertJunction /\ UNCHANGED notLoader
    \/ LCommitApplications /\ UNCHANGED notLoader
    \/ LDone /\ UNCHANGED notLoader
    \/ LDbError /\ UNCHANGED notLoader

SpecReload == InitReload /\ [][NextReload]_vars

\* both collectors in one working directory, each with the same cached list
ParallelList == <<1, 10>>

InitParallel ==
    /\ appList = ParallelList
    /\ keySet = TRUE
    /\ batchSize \in SaveBatchSizes
    /\ CrawlerFresh
    /\ LoaderOff
    /\ rAppList = ParallelList
    /\ reviewFile = <<>>
    /\ reviewDir = <<>>
    /\ rpc = "idle"
    /\ rToFetch = <<>>
    /\ rIdx = 0
    /\ rBatch = <<>>
    /\ rBatchNum = 0
    /\ review_data = "none"
    /\ rRuns = 0
    /\ rMarked = {}
    /\ EmbedOff /\ SamplerOff

\* every interleaving of the steps of the two processes
NextParallel ==
    \/ StartRun /\ UNCHANGED notCrawler
    \/ (\E resp \in Responses, jitter \in CalmJitters : Request(resp, jitter)) /\ UNCHANGED notCrawler
    \/ Record /\ UNCHANGED notCrawler
    \/ (\E outcome \in SaveOutcomes : FlushFull(outcome)) /\ UNCHANGED notCrawler
    \/ NoFlush /\ UNCHANGED notCrawler
    \/ (\E outcome \in SaveOutcomes : Finish(outcome)) /\ UNCHANGED notCrawler
    \/ Interrupt /\ UNCHANGED notCrawler
    \/ RStart /\ UNCHANGED notCollectors
    \/ (\E result \in ReviewResults : RFetch(result)) /\ UNCHANGED notCollectors
    \/ RRecord /\ UNCHANGED notCollectors
    \/ (\E outcome \in SaveOutcomes : RFlush(outcome)) /\ UNCHANGED notCollectors
    \/ (\E outcome \in SaveOutcomes : RFinish(outcome)) /\ UNCHANGED notCollectors
    \/ RInterrupt /\ UNCHANGED notCollectors

SpecParallel == InitParallel /\ [][NextParallel]_vars

\* runs that no interrupt and no write error disturbs, from an empty
\* working directory
InitFlush ==
    /\ appList \in (SeqsUpTo(AppIds, MaxListLen) \ {<<>>})
    /\ keySet = TRUE
    /\ batchSize \in SaveBatchSizes
    /\ CrawlerFresh
    /\ LoaderOff
    /\ ReviewOff /\ EmbedOff /\ SamplerOff

NextFlush ==
    \/ StartRun /\ UNCHANGED notCrawler
    \/ (\E resp \in Responses, jitter \in CalmJitters : Request(resp, jitter)) /\ UNCHANGED notCrawler
    \/ Record /\ UNCHANGED notCrawler
    \/ FlushFull("ok") /\ UNCHANGED notCrawler
    \/ NoFlush /\ UNCHANGED notCrawler
    \/ Finish("ok") /\ UNCHANGED notCrawler

SpecFlush == InitFlush /\ [][NextFlush]_vars

\* the keyset version and one of the OFFSET versions, each on its own copy
\* of the same table
InitEmbed ==
    /\ CrawlerOff
    /\ LoaderOff
    /\ ReviewOff
    /\ table0 \in EmbedTables
    /\ chunk_size \in ChunkSizes
    /\ strict \in BOOLEAN
    /\ tblK = table0
    /\ kpc = "init"
    /\ last_id = 0
    /\ tblO = table0
    /\ opc = "init"
    /\ total_records = 0
    /\ offset = 0
    /\ SamplerOff

NextEmbed ==
    \/ KStart /\ UNCHANGED notEmbed
    \/ KChunk /\ UNCHANGED notEmbed
    \/ KRaise /\ UNCHANGED notEmbed
    \/ OStart /\ UNCHANGED notEmbed
    \/ OChunk /\ UNCHANGED notEmbed
    \/ ORaise /\ UNCHANGED notEmbed

SpecEmbed == InitEmbed /\ [][NextEmbed]_vars

\* one run of the sample collector on every application list and target
InitSampler ==
    /\ CrawlerOff
    /\ LoaderOff
    /\ ReviewOff
    /\ EmbedOff
    /\ apps \in SeqsUpTo(SampleIds, MaxApps) \ {<<>>}
    /\ target_game_count \in 1..MaxTarget
    /\ candidate_apps = <<>>
    /\ processed_appids = {}
    /\ games_found = 0
    /\ collected_data = <<>>
    /\ saved = -1
    /\ spc = "start"
    /\ iterations = 0
    /\ fetched = <<>>

NextSampler ==
    \/ SStart /\ UNCHANGED notSampler
    \/ (\E k \in 1..MaxApps, outcome \in SampleOutcomes : SRound(k, outcome)) /\ UNCHANGED notSampler
    \/ SExit /\ UNCHANGED notSampler

SpecSampler == InitSampler /\ [][NextSampler]_vars

\* ------------------------------------------------------------------------
\* Claims about the crawler
\* ------------------------------------------------------------------------
RetryableReturned == pc = "record" /\ lastStatus \notin (HardStatuses \cup {200})

\* C1: a run sends no request for an id that an earlier run marked
\* Succeeded or PermanentlyFailed.
IdempotentResume == requests > 0 => cur \notin markedPrev

\* a later run is sending requests while ids of the list are marked
IdempotentResumeWitness ==
    /\ runs = 2
    /\ requests > 0
    /\ markedPrev \cap Range(appList) # {}

\* C2: no request is sent for an id that has already been marked, in this
\* run or an earlier one (each id is fetched at most once).
NoIdFetchedTwice == requests > 0 => cur \notin marked

\* C3: every record in the batch buffer or in a batch artifact carries
\* success = true.
OnlySuccessInBatch ==
    /\ \A i \in DOMAIN batch : batch[i].success
    /\ \A n \in DOMAIN dataDir : \A i \in DOMAIN dataDir[n].recs : dataDir[n].recs[i].success

NoDuplicates(list) == Cardinality(Range(list)) = Len(list)

\* C4: a completely written batch artifact keeps its content in every step
\* (stated for work lists without duplicates).
FlushedNeverMutated ==
    [][NoDuplicates(appList) =>
        \A n \in DOMAIN dataDir :
          ~dataDir[n].torn => (n \in DOMAIN dataDir' /\ dataDir'[n] = dataDir[n])]_vars

\* C7: a run that starts after an interrupt lost the buffer (no batch was
\* ever due) has every succeeded id without a record on disk in its work list.
LostBufferRefetched ==
    (/\ pc = "fetch" /\ idx = 1 /\ requests = 0
     /\ dataDir = <<>>
     /\ Len(SplitLines(processedFile, <<>>)) < batchSize)
    => (LoadFile(processedFile) \ OnDisk(dataDir)) \subseteq Range(toFetch)

\* C8: the state files name only ids whose fetch outcome was determined.
NoFalseProcessed == load_processed_ids(processedFile, failedFile) \subseteq determined

\* C9: a 401, 403 or 404 response ends get_app_details with a failure at
\* once: it is the last request, no sleep follows it and the attempt counter
\* does not move, so as the first response it is the only request.
TerminalNoRetry ==
    lastStatus \in HardStatuses =>
        /\ pc = "record"
        /\ details = None
        /\ requests = attempt + 1
        /\ sleeps = attempt

\* a 404 came as the first response
TerminalNoRetryWitness ==
    lastStatus = 404 /\ pc = "record" /\ requests = 1 /\ sleeps = 0

\* C10: when every response was retryable, get_app_details has sent the
\* initial request and API_MAX_RETRIES retries, each after a sleep, and
\* returns the failure.
RetryBudget ==
    RetryableReturned =>
        /\ details = None
        /\ requests = 1 + API_MAX_RETRIES
        /\ sleeps = API_MAX_RETRIES

\* C11: whatever the remote answers and whatever the jitter, each backoff
\* sleep of a get_app_details call is at least as long as the one before
\* it, and an id whose retry budget is used up is written to the failed
\* file and not to the processed file.
BackoffMonotone ==
    [][/\ sleeps' = sleeps + 1 => lastDelay' >= lastDelay
       /\ (pc = "record" /\ sleeps = API_MAX_RETRIES /\ marked' # marked)
             => /\ cur \in LoadFile(failedFile')
                /\ processedFile' = processedFile]_vars

\* a remote answering 429 has used the budget up, the last sleep having
\* drawn a jitter above zero
BackoffMonotoneWitness ==
    /\ pc = "record"
    /\ sleeps = API_MAX_RETRIES
    /\ lastStatus = 429
    /\ lastDelay > backoff_delay(API_MAX_RETRIES - 1, 0)

\* the appids of the records of every batch artifact, by batch number
BatchIds(dir) == [n \in DOMAIN dir |-> [i \in DOMAIN dir[n].recs |-> dir[n].recs[i].appid]]

\* the first run of the worked example comes to its end
ScenarioRunEnds == runs = 1 /\ pc = "final" /\ pc' = "idle"

\* C17, as stated: the first run of the worked example ends with a first
\* artifact holding the record of 10 alone, a second holding the record of
\* 30 alone, Succeeded = {10, 30} and Failed = {20}.
ScenarioTwoBatches ==
    [][ScenarioRunEnds =>
         /\ BatchIds(dataDir') = <<(<<10>>), (<<30>>)>>
         /\ LoadFile(processedFile') = {10, 30}
         /\ LoadFile(failedFile') = {20}]_vars

\* C17, amended: the first run of the worked example ends with one artifact
\* holding the records of 10 and 30 in this order, Succeeded = {10, 30} and
\* Failed = {20}.
ScenarioOneBatch ==
    [][ScenarioRunEnds =>
         /\ BatchIds(dataDir') = <<(<<10, 30>>)>>
         /\ \A n \in DOMAIN dataDir' : ~dataDir'[n].torn
         /\ LoadFile(processedFile') = {10, 30}
         /\ LoadFile(failedFile') = {20}]_vars

\* the first run of the worked example has ended, 20 is in the failed file
\* and an artifact is written
ScenarioOneBatchWitness ==
    /\ appList = ScenarioList
    /\ runs = 1
    /\ pc = "idle"
    /\ LoadFile(failedFile) = {20}
    /\ LoadFile(processedFile) = {10, 30}
    /\ dataDir # <<>>

\* C19: a crawler process that found STEAM_API_KEY missing has exited with
\* a non-zero status without a request sent and without a directory or a
\* file created or written.
ConfigErrorBeforeIO ==
    (~keySet /\ crawlerExit # -1) =>
        /\ crawlerExit # 0
        /\ requests = 0
        /\ created = NoSetup
        /\ processedFile = <<>> /\ failedFile = <<>> /\ dataDir = <<>>

(***************************************************************************)
(* Claims about the loader                                                 *)
(***************************************************************************)

\* C5: once a load of the artifacts has completed, loading the same
\* artifacts again never changes a committed table: the fact, lookup and
\* junction tables stay exactly as the first completed load left them.
LoadIdempotent == okLoads >= 1 => <<db>> = afterFirst

\* a second load has completed over a store that holds fact rows, lookup
\* rows and junction rows
LoadIdempotentWitness ==
    /\ okLoads = 2
    /\ lpc = "off"
    /\ db.applications # <<>>
    /\ db.developers # <<>>
    /\ db.application_developers # <<>>

WholeImportAtomic == (exitCode = 1 /\ loads = 1) => db = EmptyStore

\* the last run is over and no database error ended it
RanWithoutDbError == games # <<>> /\ exitCode # -1 /\ lastError # "db"

\* the records of the artifact that are well-formed, successful and have an
\* appid and a name
ValidIndices == {i \in DOMAIN games : games[i].shape = "object" /\ ~is_skipped(games[i])}

\* C13: whatever malformed records the artifact holds, a load that no
\* database error stops completes with status 0 and has committed the fact
\* row of every valid record of the artifact.
MalformedNotFatal ==
    RanWithoutDbError =>
        /\ exitCode = 0
        /\ \A i \in ValidIndices : games[i].appid \in AppIdsOf(db.applications)

\* C14: a load that no database error stops reports a skipped count equal
\* to the number of records that are no object, not successful, without
\* 'data' or without appid or name, and no fact row or junction row stems
\* from such a record.
SkippedCounted ==
    RanWithoutDbError =>
        /\ skipped_logged = Cardinality({i \in DOMAIN games : is_skipped(games[i])})
        /\ AppIdsOf(db.applications) \subseteq {games[i].appid : i \in ValidIndices}
        /\ \A t \in {"application_developers", "application_genres"} :
              \A i \in DOMAIN db[t] : db[t][i][1] \in {games[j].appid : j \in ValidIndices}

\* the junction rows a record asks for: one for each of its names the
\* lookup table knows
WantedPairs(r, names, table) ==
    {<<r.appid, map_get(table, names[k])>> : k \in {n \in DOMAIN names : map_get(table, names[n]) # 0}}

\* C16: after a completed load every valid record has its fact row and a
\* junction row for each of its names the lookup table knows; a name the
\* table does not know contributes no row (no row carries a missing id),
\* and no exception ends the load of an artifact of well-formed records.
MissDropsOnlyRelation ==
    /\ (games # <<>> /\ exitCode = 0) =>
          /\ \A i \in ValidIndices :
                /\ games[i].appid \in AppIdsOf(db.applications)
                /\ WantedPairs(games[i], games[i].developers, db.developers)
                      \subseteq Range(db.application_developers)
                /\ WantedPairs(games[i], games[i].genres, db.genres)
                      \subseteq Range(db.application_genres)
          /\ Range(db.application_developers) =
                UNION {WantedPairs(games[i], games[i].developers, db.developers) : i \in ValidIndices}
          /\ Range(db.application_genres) =
                UNION {WantedPairs(games[i], games[i].genres, db.genres) : i \in ValidIndices}
    /\ (\A i \in DOMAIN games : games[i].shape = "object") => lastError # "crash"

\* a load has completed on a record naming the unknown developer "" beside
\* the known developer "a": the fact row and the row for "a" are there
MissDropsOnlyRelationWitness ==
    /\ exitCode = 0
    /\ \E i \in ValidIndices :
          /\ \E k \in DOMAIN games[i].developers :
                map_get(db.developers, games[i].developers[k]) = 0
          /\ WantedPairs(games[i], games[i].developers, db.developers) # {}
          /\ games[i].appid \in AppIdsOf(db.applications)
          /\ Len(db.application_developers) = 1

\* each name at most once in the rows of a lookup table
UniqueNames(rows) == \A i, j \in DOMAIN rows : rows[i].name = rows[j].name => i = j

\* C15: whatever artifacts the runs load, a lookup table never holds a name
\* twice, neither as committed nor inside a transaction, and a committed
\* row (name, id) is a row of the table ever after.
LookupStable ==
    [][\A t \in Range(LookupTables) :
          /\ UniqueNames(db'[t]) /\ UniqueNames(tx'[t])
          /\ Range(db[t]) \subseteq Range(db'[t])
          /\ Range(db[t]) \subseteq Range(tx'[t])]_vars

\* a run on another artifact has completed: the table held a developer
\* before it and holds one more after it
LookupStableWitness ==
    /\ okLoads = 2
    /\ exitCode = 0
    /\ afterFirst # <<>>
    /\ Len(afterFirst[1].developers) = 1
    /\ Len(db.developers) = 2

\* ------------------------------------------------------------------------
\* C20: the review collector and the appdetails collector running at the
\* same time in one working directory do not touch each other's files: the
\* paths of their state files, caches and batch artifacts are all different,
\* no step of one process changes a file of the other, and so the ids each
\* one has on record are exactly the ids it marked itself.
\* ------------------------------------------------------------------------
CrawlerMoves == <<pc, idx, runs, attempt, requests>>' # <<pc, idx, runs, attempt, requests>>

ReviewMoves == <<rpc, rIdx, rRuns>>' # <<rpc, rIdx, rRuns>>

DisjointPaths ==
    {crawler_paths.app_list, crawler_paths.processed, crawler_paths.failed, crawler_paths.batches}
        \cap {review_paths.app_list, review_paths.processed, review_paths.batches} = {}

OwnIdsOnly ==
    /\ DisjointPaths
    /\ load_processed_ids(processedFile, failedFile) = marked
    /\ LoadFile(reviewFile) = rMarked

ParallelIndependent ==
    /\ []OwnIdsOnly
    /\ [][/\ ReviewMoves => UNCHANGED crawlerFiles
          /\ CrawlerMoves => UNCHANGED reviewFiles]_vars

\* both processes are running, and each has marked an id and written a batch
ParallelIndependentWitness ==
    /\ pc # "idle"
    /\ rpc # "idle"
    /\ marked # {}
    /\ rMarked # {}
    /\ dataDir # <<>>
    /\ reviewDir # <<>>

\* ------------------------------------------------------------------------
\* C21: whenever a crawler run comes to its normal end (the last batch
\* written, or nothing left to do), whatever interrupts and failed batch
\* writes the runs before it met, every id of processed_appids.txt has its
\* record in a completely written batch artifact.
\* ------------------------------------------------------------------------
\* a step in which run_collection returns: from line 215 with the partial
\* buffer saved (or empty), or from line 187 with nothing to fetch
CompletesNormally ==
    \/ /\ pc = "final"
       /\ pc' = "idle"
       /\ \/ batch = <<>>
          \/ /\ batchNum \in DOMAIN dataDir'
             /\ dataDir'[batchNum] = [recs |-> batch, torn |-> FALSE]
    \/ /\ pc = "idle"
       /\ pc' = "idle"
       /\ runs' = runs + 1
       /\ keySet

NoRecordLost ==
    [][CompletesNormally => LoadFile(processedFile') \subseteq OnDisk(dataDir')]_vars

\* ------------------------------------------------------------------------
\* C22: every artifact a run writes gets a number greater than the number
\* of every artifact already in the data directory, so the numbers follow
\* the order of the flushes.
\* ------------------------------------------------------------------------
FlushOrdered ==
    [][dataDir' # dataDir => \A m \in DOMAIN dataDir : batchNum > m]_vars

\* ------------------------------------------------------------------------
\* C23: in a run that no interrupt and no write error disturbs, the records
\* fetched successfully are on disk (or still in the buffer) exactly once
\* and in the order they were fetched; every artifact but the last of a
\* finished run holds exactly API_SAVE_BATCH_SIZE records, the last one
\* between one and that many; and a failed fetch takes no place in an
\* artifact, so that the records counted toward the capacity are successes.
\* ------------------------------------------------------------------------
\* the ids of a state file, in the order they were appended
FileIds(text) ==
    LET lines == SelectSeq(SplitLines(text, <<>>), LAMBDA l : l # <<>>)
    IN  [i \in DOMAIN lines |-> ParseInt(lines[i])]

RECURSIVE Written(_, _)
\* the records of the artifacts 1..n, in the order of their numbers
Written(dir, n) == IF n = 0 THEN <<>> ELSE Written(dir, n - 1) \o dir[n].recs

\* records written or buffered so far, in artifact order
Collected == Written(dataDir, Cardinality(DOMAIN dataDir)) \o batch

\* exactly once, in fetch order, in artifacts of the stated sizes
FlushedInOrder ==
    /\ DOMAIN dataDir = 1..Cardinality(DOMAIN dataDir)
    /\ [i \in DOMAIN Collected |-> Collected[i].appid] = FileIds(processedFile)
    /\ \A n \in DOMAIN dataDir :
          /\ ~dataDir[n].torn
          /\ Len(dataDir[n].recs) \in 1..batchSize
          /\ (n < Cardinality(DOMAIN dataDir) \/ pc # "idle")
                => Len(dataDir[n].recs) = batchSize

FlushProtocol ==
    /\ FlushedInOrder
    /\ \A i \in DOMAIN Collected : Collected[i].success

\* ------------------------------------------------------------------------
\* C24: the step that uses the result of get_app_details appends the id to
\* the succeeded file when the fetch was a success and to the failed file
\* otherwise, and leaves the other file as it was; so whenever the next
\* fetch starts, every id the run has dealt with is in exactly one of the
\* two state files.
\* ------------------------------------------------------------------------
\* Success, as the remote states it: a node whose success flag is set
FetchSucceeded == details # None /\ details.success

OneStoreEach ==
    \A j \in 1..(idx - 1) :
        toFetch[j] \in LoadFile(processedFile) <=> toFetch[j] \notin LoadFile(failedFile)

OutcomeRecordedOnce ==
    /\ [](pc = "fetch" => OneStoreEach)
    /\ [][pc = "record" /\ pc' = "flush" =>
            IF FetchSucceeded
            THEN /\ processedFile' = append_line(processedFile, cur)
                 /\ failedFile' = failedFile
            ELSE /\ failedFile' = append_line(failedFile, cur)
                 /\ processedFile' = processedFile]_vars

\* ------------------------------------------------------------------------
\* C25, as stated: once the lookup tables are populated and the maps are
\* built, the map of each table has an entry for every value the scan
\* collected for it, and the entry is the id of the table row of that name.
\* ------------------------------------------------------------------------
MapsBuilt == lpc \in {"apps", "junction"}

\* the map resolves the value to the id of the one table row of that name
Resolves(table, v) ==
    /\ map_get(maps[table], v) # 0
    /\ \E i \in DOMAIN tx[table] :
          /\ tx[table][i].name = v
          /\ tx[table][i].id = map_get(maps[table], v)
    /\ \A i, j \in DOMAIN tx[table] : tx[table][i].name = tx[table][j].name => i = j

MapCoversCollected ==
    MapsBuilt =>
        \A t \in DOMAIN LookupTables :
            \A v \in extract_lookup_data(games)[LookupTables[t]] : Resolves(LookupTables[t], v)

\* C25, amended: once the lookup tables are populated and the maps are
\* built, the map of each table has an entry for every non-empty value the
\* scan collected for it, and the entry is the id of the table row of that
\* name; an empty value is collected but neither inserted nor mapped.
MapCoversNonEmpty ==
    MapsBuilt =>
        \A t \in DOMAIN LookupTables :
            \A v \in extract_lookup_data(games)[LookupTables[t]] :
                IF v # "" THEN Resolves(LookupTables[t], v)
                ELSE map_get(maps[LookupTables[t]], v) = 0

\* the maps are built from an artifact that names the developers "" and "a"
\* and a genre
MapCoversNonEmptyWitness ==
    /\ MapsBuilt
    /\ {"", "a"} \subseteq extract_lookup_data(games).developers
    /\ map_get(maps.developers, "a") # 0
    /\ \E i \in DOMAIN games : games[i].success /\ games[i].genres # <<>>

\* ------------------------------------------------------------------------
\* C26: pass 2 reading the artifact pass 1 read, every non-empty name of a
\* record whose fact row pass 2 prepares was collected by pass 1 and has an
\* id in the lookup map, and once the batch of the record is executed the
\* junction row of that name is in the table: none is dropped.
\* ------------------------------------------------------------------------
NamesOf(r, table) == IF table = "developers" THEN r.developers ELSE r.genres

TwoPassConsistent ==
    lpc \in {"apps", "junction", "commit3"} =>
        \A i \in DOMAIN games : ~is_skipped(games[i]) =>
            \A t \in DOMAIN LookupTables :
                LET table == LookupTables[t]
                IN  \A name \in Range(NamesOf(games[i], table)) \ {""} :
                        /\ name \in extract_lookup_data(games)[table]
                        /\ map_get(maps[table], name) # 0
                        /\ (i < pos /\ lpc # "junction") =>
                              <<games[i].appid, map_get(maps[table], name)>>
                                  \in Range(tx[JunctionOf(table)])

\* pass 2 is over for an artifact with a record that names developers and a
\* genre, and the rows of both junction tables are written
TwoPassConsistentWitness ==
    /\ lpc = "commit3"
    /\ \E i \in DOMAIN games :
          /\ ~is_skipped(games[i])
          /\ games[i].developers # <<>>
          /\ games[i].genres # <<>>
    /\ tx.application_developers # <<>>
    /\ tx.application_genres # <<>>

\* ------------------------------------------------------------------------
\* C27: the junction rows of an appid are derived from the record that
\* supplied its fact row; a record whose fact insert was skipped by the
\* conflict on appid (the appid came earlier in the artifact, or was in the
\* store) adds no junction row.
\* ------------------------------------------------------------------------
\* the record that supplied the fact row of the appid: the first record of
\* the artifact that is not skipped and carries it (the store starts empty
\* and the same artifact is loaded every time)
Supplier(appid) ==
    games[CHOOSE i \in DOMAIN games :
            /\ ~is_skipped(games[i]) /\ games[i].appid = appid
            /\ \A j \in 1..(i - 1) : is_skipped(games[j]) \/ games[j].appid # appid]

JunctionFromFactRecord ==
    \A t \in DOMAIN LookupTables :
        LET table == LookupTables[t]
        IN  \A pair \in Range(tx[JunctionOf(table)]) :
                \E name \in Range(NamesOf(Supplier(pair[1]), table)) :
                    map_get(tx[table], name) = pair[2]

\* ------------------------------------------------------------------------
\* C29: when the OFFSET process_table has returned, every row that had a
\* non-empty text and no vector before it ran has a vector, whatever the
\* number of such rows and the chunk size.
\* ------------------------------------------------------------------------
OffsetComplete ==
    opc = "returned" =>
        \A i \in DOMAIN table0 :
            (table0[i].text = "text" /\ ~table0[i].embedded) => tblO[i].embedded

\* ------------------------------------------------------------------------
\* C28: started on the same table with the same chunk size, the keyset
\* process_table and the OFFSET process_table of the 07- version, once both
\* have returned, have set the vector and the run id of the same rows.
\* ------------------------------------------------------------------------
Embedded(tbl) == {i \in DOMAIN tbl : tbl[i].embedded}

SameSideEffects ==
    (kpc = "returned" /\ opc = "returned" /\ ~strict) => Embedded(tblK) = Embedded(tblO)

\* ------------------------------------------------------------------------
\* C30: whatever the application list and whatever the remote answers, the
\* sampling loop ends after finitely many rounds (each round takes one
\* entry off the candidate list), it is over only with the target reached
\* or the candidate list empty, and get_app_details is called at most once
\* for an appid.
\* ------------------------------------------------------------------------
SamplerStopsAtGoal ==
    /\ spc # "start" => iterations + Len(candidate_apps) = Len(candidates_of(apps))
    /\ spc \in {"done", "crashed"} =>
          (games_found = target_game_count \/ candidate_apps = <<>>)
    /\ \A i, j \in DOMAIN fetched : fetched[i] = fetched[j] => i = j

============================================================================
